---- MODULE Spec2Model ----
(***************************************************************************)
(* Card game score tracker: the two front ends of the repository.          *)
(*   App          (src/src/App.tsx)   - the web variant: games, rounds,    *)
(*                                      pending round scores               *)
(*   ScoreTracker (src/app/index.tsx) - the mobile variant: players with a *)
(*                                      running score and a round counter  *)
(* Both components declare addPlayer, resetGame, getWinner, players and    *)
(* newPlayerName; the definitions below carry the component's name as a    *)
(* prefix (App_ / ST_) and otherwise keep the source's names.              *)
(*                                                                         *)
(* One user event is one action: React re-renders between two events, so   *)
(* every handler reads the state its predecessor left.                     *)
(*                                                                         *)
(* A string is a sequence of one-character strings, so that trim() and     *)
(* toLowerCase() are computed character by character.                      *)
(***************************************************************************)
EXTENDS Integers, Sequences, FiniteSets, TLC

VARIABLES
    variant,                \* which front end is running: "web" or "mobile"
    now,                    \* the value the next Date.now() call returns
    \* --- ScoreTracker (src/app/index.tsx:35-39) ---
    ST_players,
    ST_newPlayerName,
    ST_selectedGameType,
    ST_round,
    ST_gameStarted,
    \* --- App (src/src/App.tsx:37-53) ---
    App_games,
    App_currentGame,
    App_players,
    App_isCreateGameOpen,
    App_newGameName,
    App_selectedPlayers,
    App_newPlayerName,
    App_currentRoundScores,
    \* --- history: the handler that ran last and the state it started from;
    \*     no handler reads it ---
    last,
    \* --- history: the adjustments and commits made to the open game, and their
    \*     replay after a reset; no handler reads it ---
    rt

ST_vars == <<ST_players, ST_newPlayerName, ST_selectedGameType, ST_round, ST_gameStarted>>

App_vars == <<App_games, App_currentGame, App_players, App_isCreateGameOpen,
              App_newGameName, App_selectedPlayers, App_newPlayerName,
              App_currentRoundScores>>

vars == <<variant, now, ST_vars, App_vars, last, rt>>

(***************************************************************************)
(* Bounds of the model.                                                    *)
(***************************************************************************)
\* mobile: sum of all players' scores
MaxScore == 5
\* mobile: the round counter
MaxRound == 2
\* mobile: players added in one run
MaxIds == 3
\* web: length of the player roster (four are seeded)
MaxRoster == 5
\* web: the roster buttons of the dialog that the user presses (the first ones)
MaxPick == 3
\* web: players selected for a new game
MaxSelected == 3
\* web: games created
MaxGames == 2
\* web: committed rounds, all games together
MaxRounds == 2
\* web: sum of the absolute pending scores of the open round
MaxPending == 1
\* web: adjustments and commits that are recorded for a replay
MaxLog == 4
\* web: the length of the record up to which the recorded game is left
MaxLogAtBack == 0

(***************************************************************************)
(* Strings.                                                                *)
(***************************************************************************)
\* String.prototype.toLowerCase, on the letters the model's names use
LowerChar(c) ==
    CASE c = "A" -> "a"
      [] c = "B" -> "b"
      [] c = "C" -> "c"
      [] c = "D" -> "d"
      [] c = "G" -> "g"
      [] OTHER -> c

toLowerCase(s) == [i \in 1..Len(s) |-> LowerChar(s[i])]

RECURSIVE trimStart(_)
trimStart(s) ==
    IF s = <<>> THEN s
    ELSE IF Head(s) = " " THEN trimStart(Tail(s)) ELSE s

RECURSIVE trimEnd(_)
trimEnd(s) ==
    IF s = <<>> THEN s
    ELSE IF s[Len(s)] = " " THEN trimEnd(SubSeq(s, 1, Len(s) - 1)) ELSE s

\* String.prototype.trim
trim(s) == trimEnd(trimStart(s))

\* what the user types into a player-name field
NameInputs ==
    { <<" ">>,
      <<"A", "l", "i", "c", "e">>,
      <<"a", "l", "i", "c", "e">>,
      <<" ", "a", "l", "i", "c", "e">>,
      <<"B", "o", "b">> }

\* what the user types into the game-name field
GameNameInputs == { <<" ">>, <<"G">> }

\* the four score buttons of a player card: -1, -5, +5, +1
ScoreChanges == {-1, -5, 5, 1}

\* Math.max
Max(a, b) == IF a >= b THEN a ELSE b

\* Date.now(): a clock that has moved on whenever the next handler reads it
Date_now == now

(***************************************************************************)
(* ScoreTracker: the mobile variant (src/app/index.tsx).                   *)
(***************************************************************************)
\* gameTypes[i].id
gameTypes == <<"hearts", "spades", "rummy", "poker", "custom">>

\* the value of `winner` when getWinner returns null
ST_null == [id |-> 0, name |-> <<>>, score |-> 0]

ST_ids == {ST_players[i].id : i \in 1..Len(ST_players)}

RECURSIVE ST_sumScores(_)
ST_sumScores(ps) == IF ps = <<>> THEN 0 ELSE Head(ps).score + ST_sumScores(Tail(ps))

\* players.filter(p => p.id !== playerId)
RECURSIVE ST_filterOut(_, _)
ST_filterOut(ps, playerId) ==
    IF ps = <<>> THEN <<>>
    ELSE IF Head(ps).id # playerId
           THEN <<Head(ps)>> \o ST_filterOut(Tail(ps), playerId)
           ELSE ST_filterOut(Tail(ps), playerId)

\* the mobile front end is the one running; the web component does not exist
ST_frame == variant = "mobile" /\ UNCHANGED <<variant, App_vars>>

\* onChangeText={setNewPlayerName}
ST_setNewPlayerName ==
    /\ ST_frame
    /\ ~ST_gameStarted
    /\ \E s \in NameInputs : ST_newPlayerName' = s
    /\ UNCHANGED <<now, ST_players, ST_selectedGameType, ST_round, ST_gameStarted>>

\* onPress={() => setSelectedGameType(gameType)}
ST_setSelectedGameType ==
    /\ ST_frame
    /\ ~ST_gameStarted
    /\ \E i \in 1..Len(gameTypes) : ST_selectedGameType' = gameTypes[i]
    /\ UNCHANGED <<now, ST_players, ST_newPlayerName, ST_round, ST_gameStarted>>

\* the duplicate test of addPlayer
ST_nameExists(ps, name) ==
    \E i \in 1..Len(ps) : toLowerCase(ps[i].name) = toLowerCase(name)

ST_addPlayer ==
    /\ ST_frame
    /\ ~ST_gameStarted
    /\ IF trim(ST_newPlayerName) = <<>>
         THEN UNCHANGED <<now, ST_players, ST_newPlayerName>>
       ELSE IF ST_nameExists(ST_players, ST_newPlayerName)
         THEN UNCHANGED <<now, ST_players, ST_newPlayerName>>
       ELSE /\ now < 5 + MaxIds
            /\ ST_players' = Append(ST_players,
                   [id |-> Date_now, name |-> trim(ST_newPlayerName), score |-> 0])
            /\ ST_newPlayerName' = <<>>
            /\ now' = now + 1
    /\ UNCHANGED <<ST_selectedGameType, ST_round, ST_gameStarted>>

\* the alert's "Remove" button ("Cancel" changes nothing: a stuttering step)
ST_removePlayer ==
    /\ ST_frame
    /\ ~ST_gameStarted
    /\ \E playerId \in ST_ids : ST_players' = ST_filterOut(ST_players, playerId)
    /\ UNCHANGED <<now, ST_newPlayerName, ST_selectedGameType, ST_round, ST_gameStarted>>

\* mutant: the score is not clamped at 0
ST_updateScoreMap_unclamped(ps, playerId, change) ==
    [i \in 1..Len(ps) |->
        IF ps[i].id = playerId
          THEN [ps[i] EXCEPT !.score = ps[i].score + change]
          ELSE ps[i]]

\* players.map(...) of updateScore
ST_updateScoreMap(ps, playerId, change) ==
    [i \in 1..Len(ps) |->
        IF ps[i].id = playerId
          THEN [ps[i] EXCEPT !.score = Max(0, ps[i].score + change)]
          ELSE ps[i]]

ST_updateScore ==
    /\ ST_frame
    /\ ST_gameStarted
    /\ \E playerId \in ST_ids, change \in ScoreChanges :
          /\ ST_sumScores(ST_updateScoreMap(ST_players, playerId, change)) <= MaxScore
          /\ ST_players' = ST_updateScoreMap(ST_players, playerId, change)
    /\ UNCHANGED <<now, ST_newPlayerName, ST_selectedGameType, ST_round, ST_gameStarted>>

\* mutant: one player is enough to start
ST_startGame_onePlayer ==
    /\ ST_frame
    /\ ~ST_gameStarted
    /\ IF Len(ST_players) < 1
         THEN UNCHANGED ST_gameStarted
         ELSE ST_gameStarted' = TRUE
    /\ UNCHANGED <<now, ST_players, ST_newPlayerName, ST_selectedGameType, ST_round>>

ST_startGame ==
    /\ ST_frame
    /\ ~ST_gameStarted
    /\ IF Len(ST_players) < 2
         THEN UNCHANGED ST_gameStarted
         ELSE ST_gameStarted' = TRUE
    /\ UNCHANGED <<now, ST_players, ST_newPlayerName, ST_selectedGameType, ST_round>>

\* onPress={() => setRound(round + 1)}
ST_setRound ==
    /\ ST_frame
    /\ ST_gameStarted
    /\ ST_round < MaxRound
    /\ ST_round' = ST_round + 1
    /\ UNCHANGED <<now, ST_players, ST_newPlayerName, ST_selectedGameType, ST_gameStarted>>

\* players.map(player => ({ ...player, score: 0 }))
ST_zeroScores(ps) == [i \in 1..Len(ps) |-> [ps[i] EXCEPT !.score = 0]]

\* the alert's "Reset" button ("Cancel" changes nothing: a stuttering step)
ST_resetGame ==
    /\ ST_frame
    /\ ST_gameStarted
    /\ ST_players' = ST_zeroScores(ST_players)
    /\ ST_round' = 1
    /\ UNCHANGED <<now, ST_newPlayerName, ST_selectedGameType, ST_gameStarted>>

\* mutant: the round counter survives the new game
ST_newGame_keepsRound ==
    /\ ST_frame
    /\ ST_gameStarted
    /\ ST_players' = <<>>
    /\ ST_gameStarted' = FALSE
    /\ UNCHANGED <<now, ST_newPlayerName, ST_selectedGameType, ST_round>>

\* the alert's "New Game" button ("Cancel" changes nothing: a stuttering step)
ST_newGame ==
    /\ ST_frame
    /\ ST_gameStarted
    /\ ST_players' = <<>>
    /\ ST_round' = 1
    /\ ST_gameStarted' = FALSE
    /\ UNCHANGED <<now, ST_newPlayerName, ST_selectedGameType>>

\* players.reduce((min, player) => player.score < min.score ? player : min)
RECURSIVE ST_reduceMin(_, _)
ST_reduceMin(acc, ps) ==
    IF ps = <<>> THEN acc
    ELSE ST_reduceMin(IF Head(ps).score < acc.score THEN Head(ps) ELSE acc, Tail(ps))

\* players.reduce((max, player) => player.score > max.score ? player : max)
RECURSIVE ST_reduceMax(_, _)
ST_reduceMax(acc, ps) ==
    IF ps = <<>> THEN acc
    ELSE ST_reduceMax(IF Head(ps).score > acc.score THEN Head(ps) ELSE acc, Tail(ps))

ST_getWinner ==
    IF Len(ST_players) = 0 THEN ST_null
    ELSE IF ST_selectedGameType = "hearts"
      THEN ST_reduceMin(Head(ST_players), Tail(ST_players))
      ELSE ST_reduceMax(Head(ST_players), Tail(ST_players))


(***************************************************************************)
(* App: the web variant (src/src/App.tsx).                                 *)
(* A Round's scores array holds one {playerId, score} entry per key of the *)
(* pending map (Object.entries), so it is modelled as the map itself:      *)
(* scores.find(s => s.playerId === id) is the lookup of id.                *)
(* Game.createdAt is never read, and Round.id is only the React key of a   *)
(* history row: both are left out.                                         *)
(***************************************************************************)
\* the value of currentGame when it is null
App_null == [id |-> 0, name |-> <<>>, players |-> <<>>, rounds |-> <<>>]

\* the value getWinner returns for null
App_nullPlayer == [id |-> 0, name |-> <<>>]

\* useState<Player[]>([...]): the seeded roster
App_seedPlayers ==
    << [id |-> 1, name |-> <<"A", "l", "i", "c", "e">>],
       [id |-> 2, name |-> <<"B", "o", "b">>],
       [id |-> 3, name |-> <<"C", "h", "a", "r", "l", "i", "e">>],
       [id |-> 4, name |-> <<"D", "i", "a", "n", "a">>] >>

\* the web front end is the one running; the mobile component does not exist
App_frame == variant = "web" /\ UNCHANGED <<variant, ST_vars>>

\* the ids of a Player[]
App_idsOf(ps) == {ps[i].id : i \in 1..Len(ps)}

\* the "Create New Game" trigger of <Dialog onOpenChange={setIsCreateGameOpen}>;
\* the dialog closes again through createGame
App_setIsCreateGameOpen ==
    /\ App_frame
    /\ App_currentGame = App_null
    /\ ~App_isCreateGameOpen
    /\ Len(App_games) < MaxGames
    /\ App_isCreateGameOpen' = TRUE
    /\ UNCHANGED <<now, App_games, App_currentGame, App_players, App_newGameName,
                   App_selectedPlayers, App_newPlayerName, App_currentRoundScores>>

\* onChange={(e) => setNewGameName(e.target.value)}
App_setNewGameName ==
    /\ App_frame
    /\ App_currentGame = App_null
    /\ App_isCreateGameOpen
    /\ \E s \in GameNameInputs : App_newGameName' = s
    /\ UNCHANGED <<now, App_games, App_currentGame, App_players, App_isCreateGameOpen,
                   App_selectedPlayers, App_newPlayerName, App_currentRoundScores>>

\* onChange={(e) => setNewPlayerName(e.target.value)}
App_setNewPlayerName ==
    /\ App_frame
    /\ App_currentGame = App_null
    /\ App_isCreateGameOpen
    /\ \E s \in NameInputs : App_newPlayerName' = s
    /\ UNCHANGED <<now, App_games, App_currentGame, App_players, App_isCreateGameOpen,
                   App_newGameName, App_selectedPlayers, App_currentRoundScores>>

\* prev.filter(p => p.id !== player.id)
RECURSIVE App_filterOut(_, _)
App_filterOut(ps, playerId) ==
    IF ps = <<>> THEN <<>>
    ELSE IF Head(ps).id # playerId
           THEN <<Head(ps)>> \o App_filterOut(Tail(ps), playerId)
           ELSE App_filterOut(Tail(ps), playerId)

\* the updater of togglePlayerSelection
App_toggled(prev, player) ==
    IF \E i \in 1..Len(prev) : prev[i].id = player.id
      THEN App_filterOut(prev, player.id)
      ELSE Append(prev, player)

App_togglePlayerSelection ==
    /\ App_frame
    /\ App_currentGame = App_null
    /\ App_isCreateGameOpen
    /\ \E i \in 1..Len(App_players) :
          /\ i <= MaxPick
          /\ Len(App_toggled(App_selectedPlayers, App_players[i])) <= MaxSelected
          /\ App_selectedPlayers' = App_toggled(App_selectedPlayers, App_players[i])
    /\ UNCHANGED <<now, App_games, App_currentGame, App_players, App_isCreateGameOpen,
                   App_newGameName, App_newPlayerName, App_currentRoundScores>>

\* initialScores / resetScores: every player of the list at 0
App_zeroScores(ps) == [id \in App_idsOf(ps) |-> 0]

App_createGame ==
    /\ App_frame
    /\ App_currentGame = App_null
    /\ App_isCreateGameOpen
    /\ IF trim(App_newGameName) = <<>> \/ Len(App_selectedPlayers) < 2
         THEN UNCHANGED <<now, App_games, App_currentGame, App_isCreateGameOpen,
                          App_newGameName, App_selectedPlayers, App_currentRoundScores>>
         ELSE LET newGame == [id |-> Date_now, name |-> App_newGameName,
                              players |-> App_selectedPlayers, rounds |-> <<>>]
              IN  /\ Len(App_games) < MaxGames
                  /\ App_games' = Append(App_games, newGame)
                  /\ App_currentGame' = newGame
                  /\ App_isCreateGameOpen' = FALSE
                  /\ App_newGameName' = <<>>
                  /\ App_selectedPlayers' = <<>>
                  /\ App_currentRoundScores' = App_zeroScores(App_selectedPlayers)
                  /\ now' = now + 1
    /\ UNCHANGED <<App_players, App_newPlayerName>>

App_addPlayer ==
    /\ App_frame
    /\ App_currentGame = App_null
    /\ App_isCreateGameOpen
    /\ IF trim(App_newPlayerName) = <<>>
         THEN UNCHANGED <<now, App_players, App_newPlayerName>>
         ELSE /\ Len(App_players) < MaxRoster
              /\ App_players' = Append(App_players,
                     [id |-> Date_now, name |-> App_newPlayerName])
              /\ App_newPlayerName' = <<>>
              /\ now' = now + 1
    /\ UNCHANGED <<App_games, App_currentGame, App_isCreateGameOpen, App_newGameName,
                   App_selectedPlayers, App_currentRoundScores>>

\* prev[playerId] || 0
App_pendingOf(prev, playerId) == IF playerId \in DOMAIN prev THEN prev[playerId] ELSE 0

\* the updater of updateRoundScore: { ...prev, [playerId]: (prev[playerId] || 0) + change }
App_updatedScores(prev, playerId, change) ==
    [k \in DOMAIN prev \cup {playerId} |->
        IF k = playerId THEN App_pendingOf(prev, playerId) + change ELSE prev[k]]

Abs(n) == IF n < 0 THEN -n ELSE n

\* Object.values(scores).reduce((sum, score) => sum + score, 0)
RECURSIVE App_sumValues(_)
App_sumValues(scores) ==
    IF DOMAIN scores = {} THEN 0
    ELSE LET k == CHOOSE x \in DOMAIN scores : TRUE
         IN  scores[k] + App_sumValues([j \in DOMAIN scores \ {k} |-> scores[j]])

RECURSIVE App_sumAbs(_)
App_sumAbs(scores) ==
    IF DOMAIN scores = {} THEN 0
    ELSE LET k == CHOOSE x \in DOMAIN scores : TRUE
         IN  Abs(scores[k]) + App_sumAbs([j \in DOMAIN scores \ {k} |-> scores[j]])

\* updateRoundScore(playerId, change)
App_updateRoundScoreOf(playerId, change) ==
    /\ App_frame
    /\ App_currentGame # App_null
    /\ LET next == App_updatedScores(App_currentRoundScores, playerId, change)
       IN  /\ App_sumAbs(next) <= MaxPending
           /\ App_currentRoundScores' = next
    /\ UNCHANGED <<now, App_games, App_currentGame, App_players, App_isCreateGameOpen,
                   App_newGameName, App_selectedPlayers, App_newPlayerName>>

\* a playerId that no player of the roster has
App_unknownId == 0 - 1

\* updateRoundScore called with any playerId: a player's of the open game or the
\* unknown one
App_callUpdateRoundScore ==
    \E playerId \in App_idsOf(App_currentGame.players) \cup {App_unknownId},
       change \in ScoreChanges :
       App_updateRoundScoreOf(playerId, change)

\* a score button of a player card of the open game
App_updateRoundScore ==
    \E i \in 1..Len(App_currentGame.players), change \in ScoreChanges :
       App_updateRoundScoreOf(App_currentGame.players[i].id, change)

\* Object.values(currentRoundScores).some(score => score !== 0)
hasCurrentRoundScores == \E k \in DOMAIN App_currentRoundScores : App_currentRoundScores[k] # 0

\* mutant: every game of the list is replaced
App_replaceGame_every(gs, id, updatedGame) == [i \in 1..Len(gs) |-> updatedGame]

\* games.map(g => g.id === currentGame.id ? updatedGame : g)
App_replaceGame(gs, id, updatedGame) ==
    [i \in 1..Len(gs) |-> IF gs[i].id = id THEN updatedGame ELSE gs[i]]

\* mutant: the round number is the count of the rounds before it
App_newRound_zeroBased(game, scores) ==
    [number |-> Len(game.rounds), scores |-> scores, total |-> App_sumValues(scores)]

\* the Round that finishRound builds
App_newRound(game, scores) ==
    [number |-> Len(game.rounds) + 1, scores |-> scores,
     total |-> App_sumValues(scores)]

\* the committed rounds of all games of the list
RECURSIVE App_countRounds(_)
App_countRounds(gs) ==
    IF gs = <<>> THEN 0 ELSE Len(Head(gs).rounds) + App_countRounds(Tail(gs))

\* mutant: the keys the pending map had are set to 0
App_finishRound_zeroesKeys ==
    /\ App_frame
    /\ App_currentGame # App_null
    /\ hasCurrentRoundScores
    /\ App_countRounds(App_games) < MaxRounds
    /\ LET newRound == App_newRound(App_currentGame, App_currentRoundScores)
           updatedGame == [App_currentGame EXCEPT !.rounds = Append(@, newRound)]
       IN  /\ App_currentGame' = updatedGame
           /\ App_games' = App_replaceGame(App_games, App_currentGame.id, updatedGame)
           /\ App_currentRoundScores' = [k \in DOMAIN App_currentRoundScores |-> 0]
    /\ UNCHANGED <<now, App_players, App_isCreateGameOpen, App_newGameName,
                   App_selectedPlayers, App_newPlayerName>>

App_finishRound ==
    /\ App_frame
    /\ App_currentGame # App_null
    /\ hasCurrentRoundScores
    /\ App_countRounds(App_games) < MaxRounds
    /\ LET newRound == App_newRound(App_currentGame, App_currentRoundScores)
           updatedGame == [App_currentGame EXCEPT !.rounds = Append(@, newRound)]
       IN  /\ App_currentGame' = updatedGame
           /\ App_games' = App_replaceGame(App_games, App_currentGame.id, updatedGame)
           /\ App_currentRoundScores' = App_zeroScores(App_currentGame.players)
    /\ UNCHANGED <<now, App_players, App_isCreateGameOpen, App_newGameName,
                   App_selectedPlayers, App_newPlayerName>>

\* "Finish Round" while disabled={!hasCurrentRoundScores}: the click is swallowed
App_finishRoundDisabled ==
    /\ App_frame
    /\ App_currentGame # App_null
    /\ ~hasCurrentRoundScores
    /\ UNCHANGED <<now, App_vars>>

\* mutant: the pending scores survive the reset
App_resetGame_keepsPending ==
    /\ App_frame
    /\ App_currentGame # App_null
    /\ LET resetGame == [App_currentGame EXCEPT !.rounds = <<>>]
       IN  /\ App_currentGame' = resetGame
           /\ App_games' = App_replaceGame(App_games, App_currentGame.id, resetGame)
    /\ UNCHANGED <<now, App_players, App_isCreateGameOpen, App_newGameName,
                   App_selectedPlayers, App_newPlayerName, App_currentRoundScores>>

App_resetGame ==
    /\ App_frame
    /\ App_currentGame # App_null
    /\ LET resetGame == [App_currentGame EXCEPT !.rounds = <<>>]
       IN  /\ App_currentGame' = resetGame
           /\ App_games' = App_replaceGame(App_games, App_currentGame.id, resetGame)
           /\ App_currentRoundScores' = App_zeroScores(App_currentGame.players)
    /\ UNCHANGED <<now, App_players, App_isCreateGameOpen, App_newGameName,
                   App_selectedPlayers, App_newPlayerName>>

\* "Back to Games": onClick={() => setCurrentGame(null)}
App_backToGames ==
    /\ App_frame
    /\ App_currentGame # App_null
    /\ App_currentGame' = App_null
    /\ UNCHANGED <<now, App_games, App_players, App_isCreateGameOpen, App_newGameName,
                   App_selectedPlayers, App_newPlayerName, App_currentRoundScores>>

\* games.slice(-5): the positions of the last five games
App_recent(gs) == {i \in 1..Len(gs) : i > Len(gs) - 5}

\* a row of Recent Games: onClick={() => setCurrentGame(game)}
App_openGame ==
    /\ App_frame
    /\ App_currentGame = App_null
    /\ ~App_isCreateGameOpen
    /\ \E i \in App_recent(App_games) : App_currentGame' = App_games[i]
    /\ UNCHANGED <<now, App_games, App_players, App_isCreateGameOpen, App_newGameName,
                   App_selectedPlayers, App_newPlayerName, App_currentRoundScores>>

(***************************************************************************)
(* App: the derived values the game screen renders.                        *)
(***************************************************************************)
\* mutant: a negative round score counts as 0
App_roundScoreOf_floored(round, playerId) ==
    IF playerId \in DOMAIN round.scores THEN Max(0, round.scores[playerId]) ELSE 0

\* round.scores.find(s => s.playerId === playerId)?.score || 0
App_roundScoreOf(round, playerId) ==
    IF playerId \in DOMAIN round.scores THEN round.scores[playerId] ELSE 0

\* rounds.reduce((total, round) => total + ..., 0)
RECURSIVE App_reduceRounds(_, _, _)
App_reduceRounds(total, rounds, playerId) ==
    IF rounds = <<>> THEN total
    ELSE App_reduceRounds(total + App_roundScoreOf(Head(rounds), playerId),
                          Tail(rounds), playerId)

getPlayerTotalScore(playerId) ==
    IF App_currentGame = App_null THEN 0
    ELSE App_reduceRounds(0, App_currentGame.rounds, playerId)

\* mutant: highestScore starts at 0
App_beats_fromZero(totalScore, best) ==
    totalScore > (IF best.winner = App_nullPlayer THEN 0 ELSE best.highestScore)

\* mutant: an equal total replaces the incumbent
App_beats_orEquals(totalScore, best) ==
    best.winner = App_nullPlayer \/ totalScore >= best.highestScore

\* totalScore > highestScore, where highestScore starts at -Infinity
App_beats(totalScore, best) == best.winner = App_nullPlayer \/ totalScore > best.highestScore

\* currentGame.players.forEach(...) of getWinner
RECURSIVE App_scanWinner(_, _)
App_scanWinner(best, ps) ==
    IF ps = <<>> THEN best.winner
    ELSE LET totalScore == getPlayerTotalScore(Head(ps).id)
         IN  App_scanWinner(
                 IF App_beats(totalScore, best)
                   THEN [highestScore |-> totalScore, winner |-> Head(ps)]
                   ELSE best,
                 Tail(ps))

App_getWinner ==
    IF App_currentGame = App_null \/ Len(App_currentGame.rounds) = 0 THEN App_nullPlayer
    ELSE App_scanWinner([highestScore |-> 0, winner |-> App_nullPlayer],
                        App_currentGame.players)

\* .map(player => ({ ...player, totalScore: getPlayerTotalScore(player.id) }))
App_withTotals(ps) ==
    [i \in 1..Len(ps) |->
        [id |-> ps[i].id, name |-> ps[i].name, totalScore |-> getPlayerTotalScore(ps[i].id)]]

\* mutant: the comparator sorts ascending
App_compare_ascending(a, b) == a.totalScore - b.totalScore

\* the comparator of the Total Scores list: (a, b) => b.totalScore - a.totalScore
App_compare(a, b) == b.totalScore - a.totalScore

\* Array.prototype.sort is stable: x goes behind every element it does not precede
RECURSIVE App_insert(_, _)
App_insert(sorted, x) ==
    IF sorted = <<>> THEN <<x>>
    ELSE IF App_compare(sorted[Len(sorted)], x) <= 0
           THEN Append(sorted, x)
           ELSE Append(App_insert(SubSeq(sorted, 1, Len(sorted) - 1), x),
                       sorted[Len(sorted)])

RECURSIVE App_sort(_, _)
App_sort(sorted, rest) ==
    IF rest = <<>> THEN sorted
    ELSE App_sort(App_insert(sorted, Head(rest)), Tail(rest))

\* the rows of the Total Scores list, top to bottom
App_standings ==
    IF App_currentGame = App_null THEN <<>>
    ELSE App_sort(<<>>, App_withTotals(App_currentGame.players))

(***************************************************************************)
(* The state after construction, and the specifications.                   *)
(***************************************************************************)
ST_Init ==
    /\ ST_players = <<>>
    /\ ST_newPlayerName = <<>>
    /\ ST_selectedGameType = gameTypes[1]
    /\ ST_round = 1
    /\ ST_gameStarted = FALSE

App_Init ==
    /\ App_games = <<>>
    /\ App_currentGame = App_null
    /\ App_players = App_seedPlayers
    /\ App_isCreateGameOpen = FALSE
    /\ App_newGameName = <<>>
    /\ App_selectedPlayers = <<>>
    /\ App_newPlayerName = <<>>
    /\ App_currentRoundScores = <<>>

\* nothing is recorded
RT_idle == [phase |-> "idle", game |-> 0, log |-> <<>>, pos |-> 0, totals |-> <<>>]

Init ==
    /\ variant \in {"web", "mobile"}
    /\ now = 5
    /\ ST_Init
    /\ App_Init
    /\ last = [op |-> "none", round |-> 0, sum |-> 0, stale |-> FALSE]
    /\ rt = RT_idle

InitMobile == Init /\ variant = "mobile"

InitWeb == Init /\ variant = "web"

\* the history is not kept
Untraced == UNCHANGED <<last, rt>>

\* the history is kept: the handler's name and, of the state it started from,
\*   round - the round that was open (web: committed rounds; mobile: the counter)
\*   sum   - web: the absolute pending scores, summed; mobile: the scores, summed
\*   stale - web: the pending map's keys were not the open game's player ids
Traced(op) ==
    last' = [op |-> op,
             round |-> IF variant = "web" THEN Len(App_currentGame.rounds) ELSE ST_round,
             sum |-> IF variant = "web" THEN App_sumAbs(App_currentRoundScores)
                                        ELSE ST_sumScores(ST_players),
             stale |-> /\ variant = "web"
                       /\ App_currentGame # App_null
                       /\ DOMAIN App_currentRoundScores # App_idsOf(App_currentGame.players)]
    /\ UNCHANGED rt

NextMobile ==
    \/ ST_setNewPlayerName /\ Untraced
    \/ ST_setSelectedGameType /\ Untraced
    \/ ST_addPlayer /\ Untraced
    \/ ST_removePlayer /\ Untraced
    \/ ST_updateScore /\ Untraced
    \/ ST_startGame /\ Untraced
    \/ ST_setRound /\ Untraced
    \/ ST_resetGame /\ Untraced
    \/ ST_newGame /\ Untraced

\* the web front end over the seeded roster
NextWeb ==
    \/ App_setIsCreateGameOpen /\ Untraced
    \/ App_setNewGameName /\ Untraced
    \/ App_togglePlayerSelection /\ Untraced
    \/ App_createGame /\ Untraced
    \/ App_updateRoundScore /\ Untraced
    \/ App_finishRound /\ Untraced
    \/ App_resetGame /\ Untraced
    \/ App_backToGames /\ Untraced
    \/ App_openGame /\ Untraced

\* the web front end's "Create New Game" dialog, roster editing included
NextWebSetup ==
    \/ App_setIsCreateGameOpen /\ Untraced
    \/ App_setNewGameName /\ Untraced
    \/ App_setNewPlayerName /\ Untraced
    \/ App_togglePlayerSelection /\ Untraced
    \/ App_addPlayer /\ Untraced
    \/ App_createGame /\ Untraced
    \/ App_backToGames /\ Untraced

NextMobileOps ==
    \/ ST_setNewPlayerName /\ Traced("setNewPlayerName")
    \/ ST_setSelectedGameType /\ Traced("setSelectedGameType")
    \/ ST_addPlayer /\ Traced("addPlayer")
    \/ ST_removePlayer /\ Traced("removePlayer")
    \/ ST_updateScore /\ Traced("updateScore")
    \/ ST_startGame /\ Traced("startGame")
    \/ ST_setRound /\ Traced("setRound")
    \/ ST_resetGame /\ Traced("resetGame")
    \/ ST_newGame /\ Traced("newGame")

NextWebOps ==
    \/ App_setIsCreateGameOpen /\ Traced("setIsCreateGameOpen")
    \/ App_setNewGameName /\ Traced("setNewGameName")
    \/ App_togglePlayerSelection /\ Traced("togglePlayerSelection")
    \/ App_createGame /\ Traced("createGame")
    \/ App_updateRoundScore /\ Traced("updateRoundScore")
    \/ App_finishRound /\ Traced("finishRound")
    \/ App_resetGame /\ Traced("resetGame")
    \/ App_backToGames /\ Traced("backToGames")
    \/ App_openGame /\ Traced("openGame")

\* the total score of every player of the open game
RT_totals == [id \in App_idsOf(App_currentGame.players) |-> getPlayerTotalScore(id)]

\* the entries of the record
RT_adjust(playerId, change) == [op |-> "updateRoundScore", playerId |-> playerId, change |-> change]

RT_commit == [op |-> "finishRound", playerId |-> 0, change |-> 0]

\* the recorded game is the open one
RT_recorded == App_currentGame # App_null /\ App_currentGame.id = rt.game

\* the first game that is created is the recorded one
RT_start ==
    /\ UNCHANGED last
    /\ IF App_currentGame' # App_null /\ rt.phase = "idle"
         THEN rt' = [rt EXCEPT !.phase = "log", !.game = App_currentGame'.id]
         ELSE UNCHANGED rt

\* an adjustment or a commit made to the recorded game: recorded the first
\* time, the next entry of the record during the replay
RT_step(entry) ==
    /\ UNCHANGED last
    /\ RT_recorded
    /\ \/ /\ rt.phase = "log"
          /\ Len(rt.log) < MaxLog
          /\ rt' = [rt EXCEPT !.log = Append(@, entry)]
       \/ /\ rt.phase = "replay"
          /\ rt.pos <= Len(rt.log)
          /\ rt.log[rt.pos] = entry
          /\ rt' = [rt EXCEPT !.pos = @ + 1]

\* an adjustment made to another game
RT_other == UNCHANGED last /\ ~RT_recorded /\ UNCHANGED rt

\* the replay presses "Finish Round" where the record has a commit
RT_replayCommit ==
    /\ UNCHANGED last
    /\ RT_recorded
    /\ rt.phase = "replay"
    /\ rt.pos <= Len(rt.log)
    /\ rt.log[rt.pos] = RT_commit
    /\ rt' = [rt EXCEPT !.pos = @ + 1]

\* the reset of the recorded game ends the record: the totals are noted and
\* the replay begins
RT_reset ==
    /\ UNCHANGED last
    /\ RT_recorded
    /\ rt.phase = "log"
    /\ rt' = [rt EXCEPT !.phase = "replay", !.pos = 1, !.totals = RT_totals]

\* the recorded game is left while its record is short, not during the replay,
\* and a game is reopened
RT_pause ==
    /\ UNCHANGED last
    /\ rt.phase = "log"
    /\ RT_recorded => Len(rt.log) <= MaxLogAtBack
    /\ UNCHANGED rt

\* the web front end with the adjustments and commits made to one game
\* recorded, then the game reset, then the record made again
NextRoundTrip ==
    \/ App_setIsCreateGameOpen /\ Untraced
    \/ App_setNewGameName /\ Untraced
    \/ App_togglePlayerSelection /\ Untraced
    \/ App_createGame /\ RT_start
    \/ App_openGame /\ RT_pause
    \/ \E i \in 1..Len(App_currentGame.players), change \in ScoreChanges :
          /\ App_updateRoundScoreOf(App_currentGame.players[i].id, change)
          /\ RT_step(RT_adjust(App_currentGame.players[i].id, change))
    \/ App_updateRoundScore /\ RT_other
    \/ App_finishRound /\ RT_step(RT_commit)
    \/ App_finishRoundDisabled /\ RT_replayCommit
    \/ App_resetGame /\ RT_reset
    \/ App_backToGames /\ RT_pause

\* one web game, with updateRoundScore called with any playerId
NextAdjust ==
    \/ App_setIsCreateGameOpen /\ Untraced
    \/ App_setNewGameName /\ Untraced
    \/ App_togglePlayerSelection /\ Untraced
    \/ App_createGame /\ Untraced
    \/ App_callUpdateRoundScore /\ Untraced
    \/ App_finishRound /\ Untraced
    \/ App_resetGame /\ Untraced

\* the mobile front end
SpecMobile == InitMobile /\ [][NextMobile]_vars

\* the web front end
SpecWeb == InitWeb /\ [][NextWeb]_vars

\* the web front end's dialog
SpecWebSetup == InitWeb /\ [][NextWebSetup]_vars

\* either front end
Spec == Init /\ [][NextMobile \/ NextWeb]_vars

\* the front ends with the history kept
SpecMobileOps == InitMobile /\ [][NextMobileOps]_vars

SpecWebOps == InitWeb /\ [][NextWebOps]_vars

SpecOps == Init /\ [][NextMobileOps \/ NextWebOps]_vars

\* the web front end's updateRoundScore as a function of any playerId
SpecAdjust == InitWeb /\ [][NextAdjust]_vars

\* the web front end with record and replay
SpecRoundTrip == InitWeb /\ [][NextRoundTrip]_vars

(***************************************************************************)
(* Properties.                                                             *)
(***************************************************************************)
\* no two entries of a player list have case-insensitively equal names
NoEqualNames(ps) ==
    \A i, j \in 1..Len(ps) : i < j => toLowerCase(ps[i].name) # toLowerCase(ps[j].name)

\* every game the web front end holds: the games list and the open game
App_allGames ==
    {App_games[i] : i \in 1..Len(App_games)} \cup
    (IF App_currentGame = App_null THEN {} ELSE {App_currentGame})

\* the largest id the model hands out: four seeded players, then one per Date.now()
MaxId == 4 + MaxIds + MaxRoster + MaxGames

\* the scores of a round, added up key by key in the order of the ids
RoundSum(round) ==
    LET ids == DOMAIN round.scores
        upTo[n \in 0..MaxId] ==
            IF n = 0 THEN 0
            ELSE upTo[n - 1] + (IF n \in ids THEN round.scores[n] ELSE 0)
    IN  upTo[MaxId]

\* the deltas of one player over the committed rounds, last round first
PlayerSum(rounds, playerId) ==
    LET delta(r) == IF playerId \in DOMAIN r.scores THEN r.scores[playerId] ELSE 0
        upTo[n \in 0..Len(rounds)] ==
            IF n = 0 THEN 0 ELSE delta(rounds[n]) + upTo[n - 1]
    IN  upTo[Len(rounds)]

\* C1: after any sequence of addPlayer calls no two players of a player list
\* have names that are equal when compared case-insensitively
C1_UniqueNames == NoEqualNames(ST_players) /\ NoEqualNames(App_players)

\* C2: every committed round of every game has score entries only for ids of
\* that game's players
C2_RoundKeysArePlayers ==
    \A g \in App_allGames : \A i \in 1..Len(g.rounds) :
        DOMAIN g.rounds[i].scores \subseteq App_idsOf(g.players)

\* C3: every committed round's total is the sum of its own score entries and
\* its number is its 1-based position in the game's round sequence
C3_RoundTotalAndNumber ==
    \A g \in App_allGames : \A i \in 1..Len(g.rounds) :
        /\ g.rounds[i].total = RoundSum(g.rounds[i])
        /\ g.rounds[i].number = i

\* C3 witness: a game with two committed rounds, the second one negative
C3_Witness ==
    /\ App_currentGame # App_null
    /\ Len(App_currentGame.rounds) = 2
    /\ App_currentGame.rounds[2].total < 0
    /\ App_currentGame.rounds[1].total > 0

\* C4: the winner query returns no player while zero rounds have been committed
\* (web: the open game has no rounds; mobile: the started game is in round 1)
C4_NoWinnerBeforeFirstRound ==
    /\ (App_currentGame # App_null /\ Len(App_currentGame.rounds) = 0)
          => App_getWinner = App_nullPlayer
    /\ (ST_gameStarted /\ ST_round = 1) => ST_getWinner = ST_null

\* C5: a winner that is returned has the extremal total (the minimum for
\* 'hearts' on mobile, the maximum otherwise) and every player before it in
\* insertion order is strictly worse
C5_WinnerIsFirstExtremal ==
    /\ App_getWinner # App_nullPlayer =>
          \E i \in 1..Len(App_currentGame.players) :
             LET ps == App_currentGame.players
                 t(k) == getPlayerTotalScore(ps[k].id)
             IN  /\ ps[i] = App_getWinner
                 /\ \A j \in 1..Len(ps) : t(j) <= t(i)
                 /\ \A j \in 1..(i - 1) : t(j) < t(i)
    /\ ST_getWinner # ST_null =>
          \E i \in 1..Len(ST_players) :
             /\ ST_players[i] = ST_getWinner
             /\ IF ST_selectedGameType = "hearts"
                  THEN /\ \A j \in 1..Len(ST_players) :
                             ST_players[j].score >= ST_players[i].score
                       /\ \A j \in 1..(i - 1) : ST_players[j].score > ST_players[i].score
                  ELSE /\ \A j \in 1..Len(ST_players) :
                             ST_players[j].score <= ST_players[i].score
                       /\ \A j \in 1..(i - 1) : ST_players[j].score < ST_players[i].score

\* C5 witness: three players, the first and the third tied above the second,
\* and the first is the winner
C5_Witness ==
    /\ App_currentGame # App_null
    /\ Len(App_currentGame.players) = 3
    /\ Len(App_currentGame.rounds) > 0
    /\ LET ps == App_currentGame.players
       IN  /\ getPlayerTotalScore(ps[1].id) = getPlayerTotalScore(ps[3].id)
           /\ getPlayerTotalScore(ps[2].id) < getPlayerTotalScore(ps[1].id)
           /\ App_getWinner = ps[1]

\* the position of a player id in a player list
PositionOf(ps, id) == CHOOSE i \in 1..Len(ps) : ps[i].id = id

\* C6: the standings hold every player of the open game exactly once, in
\* non-increasing order of total score, equal totals in insertion order
C6_Standings ==
    App_currentGame # App_null =>
       LET ps == App_currentGame.players
           st == App_standings
       IN  /\ Len(st) = Len(ps)
           /\ \A i \in 1..Len(ps) :
                 Cardinality({k \in 1..Len(st) : st[k].id = ps[i].id}) = 1
           /\ \A k \in 1..Len(st) : st[k].totalScore = getPlayerTotalScore(st[k].id)
           /\ \A k, l \in 1..Len(st) : k < l =>
                 /\ st[k].totalScore >= st[l].totalScore
                 /\ st[k].totalScore = st[l].totalScore
                       => PositionOf(ps, st[k].id) < PositionOf(ps, st[l].id)

\* C6 witness: three players, the second one leads and the other two are tied
C6_Witness ==
    /\ App_currentGame # App_null
    /\ Len(App_currentGame.players) = 3
    /\ LET ps == App_currentGame.players
           st == App_standings
       IN  /\ st[1].id = ps[2].id
           /\ st[2].id = ps[1].id
           /\ st[3].id = ps[3].id
           /\ st[2].totalScore = st[3].totalScore
           /\ st[2].totalScore < 0

\* the score updateScore leaves: the old score plus the change, 0 if that is negative
Clamped(old, change) == IF old + change < 0 THEN 0 ELSE old + change

\* C7: on mobile every score is >= 0 in every state, and an updateScore step
\* sets one player's score to max(0, old score + change) and no other
C7_ScoresNeverNegative ==
    /\ [](\A i \in 1..Len(ST_players) : ST_players[i].score >= 0)
    /\ [][last'.op = "updateScore" =>
            /\ Len(ST_players') = Len(ST_players)
            /\ \E i \in 1..Len(ST_players), change \in ScoreChanges :
                  /\ ST_players'[i].score = Clamped(ST_players[i].score, change)
                  /\ \A j \in 1..Len(ST_players) : j # i => ST_players'[j] = ST_players[j]]_vars

\* C7 witness: an updateScore step that changed no score (a decrement at 0),
\* while another player has points
C7_Witness ==
    /\ last.op = "updateScore"
    /\ last.sum = ST_sumScores(ST_players)
    /\ last.sum > 0
    /\ \E i \in 1..Len(ST_players) : ST_players[i].score = 0

\* C8: a player's total is the sum of that player's deltas over the committed
\* rounds (0 for a round without an entry), unclamped
C8_TotalIsSumOfDeltas ==
    App_currentGame # App_null =>
       \A i \in 1..Len(App_currentGame.players) :
          getPlayerTotalScore(App_currentGame.players[i].id) =
             PlayerSum(App_currentGame.rounds, App_currentGame.players[i].id)

\* C8 witness: two committed rounds, a player at -2 and another whose +1 and -1 cancel
C8_Witness ==
    /\ App_currentGame # App_null
    /\ Len(App_currentGame.rounds) = 2
    /\ \E i, j \in 1..Len(App_currentGame.players) :
          /\ getPlayerTotalScore(App_currentGame.players[i].id) = -2
          /\ i # j
          /\ getPlayerTotalScore(App_currentGame.players[j].id) = 0

\* C9: a reset empties the round history (web) / zeroes every score (mobile),
\* sets every pending score to 0, restarts the round numbering at 1 and leaves
\* the player list as it was
C9_ResetKeepsPlayers ==
    [][last'.op = "resetGame" =>
         IF variant = "web"
           THEN /\ App_currentGame'.rounds = <<>>
                /\ \A i \in 1..Len(App_games') :
                      App_games'[i].id = App_currentGame.id => App_games'[i].rounds = <<>>
                /\ DOMAIN App_currentRoundScores' = App_idsOf(App_currentGame.players)
                /\ \A k \in DOMAIN App_currentRoundScores' : App_currentRoundScores'[k] = 0
                /\ App_newRound(App_currentGame', App_currentRoundScores').number = 1
                /\ App_currentGame'.players = App_currentGame.players
                /\ App_players' = App_players
           ELSE /\ \A i \in 1..Len(ST_players') : ST_players'[i].score = 0
                /\ ST_round' = 1
                /\ Len(ST_players') = Len(ST_players)
                /\ \A i \in 1..Len(ST_players) :
                      /\ ST_players'[i].id = ST_players[i].id
                      /\ ST_players'[i].name = ST_players[i].name]_vars

\* C9 witness: a web reset that started with a committed round and a pending score
C9_Witness ==
    /\ variant = "web"
    /\ last.op = "resetGame"
    /\ last.round > 0
    /\ last.sum > 0

\* C10: when the adjustments and commits made to a game have been made again
\* after its reset, every player has the total they had before the reset
C10_RoundTrip ==
    (rt.phase = "replay" /\ rt.pos = Len(rt.log) + 1) =>
       \A id \in DOMAIN rt.totals : getPlayerTotalScore(id) = rt.totals[id]

\* the same, while the recorded game is the only game
RoundTripOfOnlyGame == Len(App_games) = 1 => C10_RoundTrip

\* a replay of two commits is complete and a player has a negative total
RoundTripOfOnlyGame_Witness ==
    /\ Len(App_games) = 1
    /\ rt.phase = "replay"
    /\ rt.pos = Len(rt.log) + 1
    /\ Len(App_currentGame.rounds) = 2
    /\ \E id \in DOMAIN rt.totals : rt.totals[id] < 0

\* C11: every game of the web front end has at least 2 players, and the mobile
\* game has at least 2 players while it is started
C11_AtLeastTwoPlayers ==
    /\ \A g \in App_allGames : Len(g.players) >= 2
    /\ ST_gameStarted => Len(ST_players) >= 2

\* C11 witness: a started mobile game of exactly two players, the survivors of
\* three that were added (an id between theirs or before them is gone)
C11_Witness ==
    /\ ST_gameStarted
    /\ Len(ST_players) = 2
    /\ now = 5 + MaxIds
    /\ ST_sumScores(ST_players) > 0

BlankOrDuplicate(ps, name) ==
    \/ trim(name) = <<>>
    \/ \E i \in 1..Len(ps) : toLowerCase(trim(ps[i].name)) = toLowerCase(trim(name))

\* C13: a rejected operation changes nothing: addPlayer with a blank or
\* duplicate name, startGame with fewer than 2 players and createGame with a
\* blank game name or fewer than 2 selected players leave players, games,
\* rounds, pending scores, round counter and started/current game as they were
C13_RejectedChangesNothing ==
    [][/\ (last'.op = "addPlayer" /\ BlankOrDuplicate(ST_players, ST_newPlayerName))
            => UNCHANGED <<ST_players, ST_round, ST_gameStarted>>
       /\ (last'.op = "startGame" /\ Len(ST_players) < 2)
            => UNCHANGED <<ST_players, ST_round, ST_gameStarted>>
       /\ (last'.op = "createGame"
             /\ (trim(App_newGameName) = <<>> \/ Len(App_selectedPlayers) < 2))
            => UNCHANGED <<App_games, App_currentGame, App_players,
                           App_currentRoundScores>>]_vars

\* C14: in the state finishRound leaves, the keys of the pending map are
\* exactly the ids of the open game's players and every value is 0
C14_PendingZeroAfterCommit ==
    (variant = "web" /\ last.op = "finishRound") =>
       /\ App_currentGame # App_null
       /\ DOMAIN App_currentRoundScores = App_idsOf(App_currentGame.players)
       /\ \A id \in DOMAIN App_currentRoundScores : App_currentRoundScores[id] = 0

\* C14 witness: finishRound started with a pending map whose keys were not the
\* open game's player ids, and committed the game's second round
C14_Witness ==
    /\ variant = "web"
    /\ last.op = "finishRound"
    /\ last.stale
    /\ last.round = 1

\* C15: while a game is open the games list has an entry with its id, its
\* players and its rounds, and a finishRound or resetGame step leaves every
\* other entry of the list as it was
C15_GamesListFollowsCurrentGame ==
    /\ [](App_currentGame # App_null =>
            \E i \in 1..Len(App_games) :
               /\ App_games[i].id = App_currentGame.id
               /\ App_games[i].players = App_currentGame.players
               /\ App_games[i].rounds = App_currentGame.rounds)
    /\ [][(variant = "web" /\ last'.op \in {"finishRound", "resetGame"}) =>
            /\ Len(App_games') = Len(App_games)
            /\ \A i \in 1..Len(App_games) :
                  App_games[i].id # App_currentGame.id => App_games'[i] = App_games[i]]_vars

\* C15 witness: finishRound committed a round of the reopened first game while
\* the second game of the list has a round of its own
C15_Witness ==
    /\ variant = "web"
    /\ last.op = "finishRound"
    /\ Len(App_games) = 2
    /\ App_currentGame = App_games[1]
    /\ Len(App_games[2].rounds) = 1
    /\ App_games[2].players # App_games[1].players

\* the rows of the Total Scores list that show the trophy:
\* index === 0 && winner?.id === player.id
TrophyRows ==
    {k \in 1..Len(App_standings) : k = 1 /\ App_getWinner.id = App_standings[k].id}

\* C16: with at least one committed round getWinner returns a player, that
\* player is the first row of the standings, and exactly one row shows the trophy
C16_WinnerIsFirstStanding ==
    (App_currentGame # App_null /\ Len(App_currentGame.rounds) > 0) =>
       /\ App_getWinner # App_nullPlayer
       /\ App_standings[1].id = App_getWinner.id
       /\ App_standings[1].name = App_getWinner.name
       /\ Cardinality(TrophyRows) = 1

\* C16 witness: every total is negative and the highest is shared by two players
C16_Witness ==
    /\ App_currentGame # App_null
    /\ Len(App_currentGame.rounds) > 0
    /\ \A k \in 1..Len(App_standings) : App_standings[k].totalScore < 0
    /\ App_standings[1].totalScore = App_standings[2].totalScore

\* C17: on mobile, while the game is not started every score is 0 and the
\* round counter is 1, and a step taken while the game is not started changes
\* neither the round counter nor the score of a player it keeps
C17_SetupIsZeroed ==
    /\ [](~ST_gameStarted =>
            /\ ST_round = 1
            /\ \A i \in 1..Len(ST_players) : ST_players[i].score = 0)
    /\ [][~ST_gameStarted =>
            /\ ST_round' = ST_round
            /\ \A i \in 1..Len(ST_players), j \in 1..Len(ST_players') :
                  ST_players'[j].id = ST_players[i].id
                     => ST_players'[j].score = ST_players[i].score]_vars

\* C17 witness: the setup screen right after a newGame that ended a game in
\* its last round with points on the board
C17_Witness ==
    /\ variant = "mobile"
    /\ ~ST_gameStarted
    /\ last.op = "newGame"
    /\ last.round = MaxRound
    /\ last.sum > 0

====
